---- MODULE Spec2Model ----
(***************************************************************************)
(* dioxus-motion: the animation state machine (AnimationState), the        *)
(* sequence layer and the driver (MotionState) of src/src/lib.rs.          *)
(*                                                                         *)
(* Time is counted in ticks; PHYSICS_STEP ticks are 1/240 s.  Values of    *)
(* the animated scalar are fixed-point integers, ValueScale units per 1.0. *)
(***************************************************************************)
EXTENDS Integers, Sequences, FiniteSets, TLC

VARIABLES
    base,       \* MotionState.base: the AnimationState behind the signal
    sequence,   \* MotionState.sequence: NoSeq or the installed SequenceState
    calls,      \* observer: number of animate_to / animate_sequence calls made
    fired,      \* observer: the callbacks invoked since the latest such call, in order
    cancelled,  \* observer: stop() or reset() was called since the latest such call
    preempted,  \* observer: id of the sequence the latest such call removed, 0 if none
    nUpd,       \* observer: update calls counted by the scenario specification
    physics,    \* the sub-step loop of the Spring arm in the update call under way
    panicked,   \* an update call has panicked on an arithmetic overflow
    host,       \* the loop of use_motion: its position, the dt of the iteration
                \* at hand and the delay it last asked for
    router      \* the AnimatedRouterContext of the outlet

vars ==
    <<base, sequence, calls, fired, cancelled, preempted, nUpd, physics, panicked, host,
      router>>

----------------------------------------------------------------------------
(* Bounds of the model *)

MaxCalls == 2
MaxSteps == 2
MaxCount == 31

(* Program constants, in ticks and fixed-point units *)

PHYSICS_STEP == 2
ValueScale == 10

TicksPerSecond == 240 * PHYSICS_STEP
MAX_DT == TicksPerSecond \div 30

----------------------------------------------------------------------------
(* Arithmetic helpers *)

Min(a, b) == IF a <= b THEN a ELSE b

Abs(a) == IF a >= 0 THEN a ELSE -a

\* u8 arithmetic, modulo 2^8
U8(n) == n % 256

\* Animatable::scale by the ratio num/den, truncating toward zero
Scale(v, num, den) ==
    IF v * num >= 0 THEN (v * num) \div den ELSE -((-(v * num)) \div den)

\* Animatable::zero
Zero == 0

\* Animatable::magnitude
Magnitude(v) == Abs(v)

\* Animatable::epsilon
Epsilon == 256

\* Animatable::interpolate(self, target, t) with t = num/den
Interpolate(from, to, num, den) == from + Scale(to - from, num, den)

----------------------------------------------------------------------------
(* Configurations *)

NoCb == <<0, 0>>

LoopUnset == [kind |-> "Unset", count |-> 0]
LoopNone == [kind |-> "None", count |-> 0]
LoopInfinite == [kind |-> "Infinite", count |-> 0]
LoopTimes(n) == [kind |-> "Times", count |-> n]

Tween(duration, easing) ==
    [kind |-> "Tween", duration |-> duration, easing |-> easing,
     stiffness |-> 0, damping |-> 0, mass |-> 1]

Spring(stiffness, damping, mass) ==
    [kind |-> "Spring", duration |-> 0, easing |-> "none",
     stiffness |-> stiffness, damping |-> damping, mass |-> mass]

AnimationConfig(mode, loop_mode, on_complete) ==
    [mode |-> mode, loop_mode |-> loop_mode, delay |-> 0, on_complete |-> on_complete]

\* AnimationConfig::default()
DefaultConfig == AnimationConfig(Tween(TicksPerSecond \div 4, "Linear"), LoopUnset, NoCb)

\* (tween.easing)(progress, 0.0, 1.0, 1.0) as the ratio EasedNum / EasedDen,
\* progress = elapsed / duration
EasedNum(easing, elapsed, duration) ==
    IF easing = "QuadIn" THEN elapsed * elapsed ELSE elapsed

EasedDen(easing, elapsed, duration) ==
    IF easing = "QuadIn" THEN duration * duration ELSE duration

----------------------------------------------------------------------------
(* AnimationState *)

AnimationState_new(initial) ==
    [current |-> initial, target |-> initial, initial |-> initial,
     velocity |-> Zero, config |-> DefaultConfig, running |-> FALSE,
     elapsed |-> 0, delay_elapsed |-> 0, current_loop |-> 0]

AnimationState_animate_to_KeepsVelocity(s, target, config) ==
    [s EXCEPT !.initial = s.current, !.target = target, !.config = config,
              !.running = TRUE, !.elapsed = 0, !.delay_elapsed = 0,
              !.current_loop = 0]

AnimationState_animate_to(s, target, config) ==
    [s EXCEPT !.initial = s.current, !.target = target, !.config = config,
              !.running = TRUE, !.elapsed = 0, !.delay_elapsed = 0,
              !.velocity = Zero, !.current_loop = 0]

AnimationState_stop_SnapsToTarget(s) ==
    [s EXCEPT !.running = FALSE, !.current_loop = 0, !.velocity = Zero,
              !.current = s.target]

AnimationState_stop_ClearsElapsed(s) ==
    [s EXCEPT !.running = FALSE, !.current_loop = 0, !.velocity = Zero,
              !.elapsed = 0]

AnimationState_stop(s) ==
    [s EXCEPT !.running = FALSE, !.current_loop = 0, !.velocity = Zero]

AnimationState_reset_KeepsCurrent(s) ==
    [s EXCEPT !.running = FALSE, !.velocity = Zero, !.elapsed = 0]

AnimationState_reset(s) ==
    [s EXCEPT !.running = FALSE, !.velocity = Zero, !.elapsed = 0,
              !.current = s.initial]

\* self.config.loop_mode.unwrap_or(LoopMode::None)
LoopOf(config) ==
    IF config.loop_mode.kind = "Unset" THEN LoopNone ELSE config.loop_mode

\* The result of a step of the state machine: the new state, the value
\* returned, and the callbacks invoked on the way.
Outcome(st, ret, cb) == [st |-> st, ret |-> ret, cb |-> cb]

CompletionCallbacks_EveryCycle(config, should_continue) ==
    IF config.on_complete # NoCb THEN <<config.on_complete>> ELSE <<>>

\* The callback part of handle_completion
CompletionCallbacks(config, should_continue) ==
    IF ~should_continue /\ config.on_complete # NoCb
    THEN <<config.on_complete>>
    ELSE <<>>

Restart_KeepsElapsed(s) ==
    [s EXCEPT !.current = s.initial, !.velocity = Zero]

\* The restart of a loop: back to initial, elapsed and velocity cleared
Restart(s) ==
    [s EXCEPT !.current = s.initial, !.elapsed = 0, !.velocity = Zero]

HandleTimes_Late(s, count) ==
    LET looped == [s EXCEPT !.current_loop = U8(s.current_loop + 1)]
    IN  IF looped.current_loop > count
        THEN [st |-> AnimationState_stop(looped), cont |-> FALSE]
        ELSE [st |-> Restart(looped), cont |-> TRUE]

HandleTimes_EndsAtInitial(s, count) ==
    LET looped == [s EXCEPT !.current_loop = U8(s.current_loop + 1)]
    IN  IF looped.current_loop >= count
        THEN [st |-> AnimationState_stop(Restart(looped)), cont |-> FALSE]
        ELSE [st |-> Restart(looped), cont |-> TRUE]

\* The Times(count) arm of handle_completion
HandleTimes(s, count) ==
    LET looped == [s EXCEPT !.current_loop = U8(s.current_loop + 1)]
    IN  IF looped.current_loop >= count
        THEN [st |-> AnimationState_stop(looped), cont |-> FALSE]
        ELSE [st |-> Restart(looped), cont |-> TRUE]

LoopMatch_InfiniteStops(s) ==
    LET loop == LoopOf(s.config)
    IN  CASE loop.kind \in {"None", "Infinite"} ->
                [st |-> [s EXCEPT !.running = FALSE], cont |-> FALSE]
          [] OTHER -> HandleTimes(s, loop.count)

\* The match on the loop policy: the state it leaves and should_continue
LoopMatch(s) ==
    LET loop == LoopOf(s.config)
    IN  CASE loop.kind = "None" ->
                [st |-> [s EXCEPT !.running = FALSE], cont |-> FALSE]
          [] loop.kind = "Infinite" ->
                [st |-> Restart(s), cont |-> TRUE]
          [] OTHER -> HandleTimes(s, loop.count)

CallbackMoment_BeforeMatch(s) == s

\* The state in which config.on_complete is invoked: the match has run, and
\* nothing is written after the call.
CallbackMoment(s) == LoopMatch(s).st

handle_completion(s) ==
    LET r == LoopMatch(s)
    IN  Outcome(CallbackMoment(s), r.cont, CompletionCallbacks(s.config, r.cont))

\* The fixed-timestep loop of the Spring arm: <<velocity, current>> after
\* remaining_dt is used up.
RECURSIVE SubSteps(_, _, _, _)
SubSteps(velocity, current, acceleration, remaining_dt) ==
    IF remaining_dt > 0
    THEN LET step_dt == Min(remaining_dt, PHYSICS_STEP)
             v == velocity + acceleration * step_dt
             c == current + v * step_dt
         IN  SubSteps(v, c, acceleration, remaining_dt - step_dt)
    ELSE <<velocity, current>>

UpdateSpring_PositionOnly(s, dt) ==
    LET spring == s.config.mode
        force == (s.target - s.current) * spring.stiffness
        damping == s.velocity * (-spring.damping)
        acceleration == Scale(force + damping, 1, spring.mass)
        vc == SubSteps(s.velocity, s.current, acceleration, dt)
        moved == [s EXCEPT !.velocity = vc[1], !.current = vc[2]]
    IN  IF Magnitude(moved.target - moved.current) < Epsilon
        THEN handle_completion([moved EXCEPT !.current = moved.target])
        ELSE Outcome(moved, TRUE, <<>>)

UpdateSpring(s, dt) ==
    LET spring == s.config.mode
        force == (s.target - s.current) * spring.stiffness
        damping == s.velocity * (-spring.damping)
        acceleration == Scale(force + damping, 1, spring.mass)
        vc == SubSteps(s.velocity, s.current, acceleration, dt)
        moved == [s EXCEPT !.velocity = vc[1], !.current = vc[2]]
    IN  IF 2 * Magnitude(moved.velocity) < Epsilon
           /\ Magnitude(moved.target - moved.current) < Epsilon
        THEN handle_completion([moved EXCEPT !.current = moved.target])
        ELSE Outcome(moved, TRUE, <<>>)

TweenDone_Strict(elapsed, duration) == duration = 0 \/ elapsed > duration

TweenDone_TwiceOver(elapsed, duration) == duration = 0 \/ elapsed >= 2 * duration

\* progress >= 1.0 for progress = (elapsed / duration).min(1.0); a zero
\* duration gives inf or NaN, and min(1.0) of either is 1.0
TweenDone(elapsed, duration) == duration = 0 \/ elapsed >= duration

UpdateTween_NaNProgress(s, dt) ==
    LET tween == s.config.mode
        timed == [s EXCEPT !.elapsed = s.elapsed + dt]
    IN  IF tween.duration = 0
        THEN Outcome(timed, TRUE, <<>>)
        ELSE IF TweenDone(timed.elapsed, tween.duration)
        THEN handle_completion([timed EXCEPT !.current = timed.target])
        ELSE Outcome([timed EXCEPT !.current =
                        Interpolate(timed.initial, timed.target,
                            EasedNum(tween.easing, timed.elapsed, tween.duration),
                            EasedDen(tween.easing, timed.elapsed, tween.duration))],
                     TRUE, <<>>)

UpdateTween(s, dt) ==
    LET tween == s.config.mode
        timed == [s EXCEPT !.elapsed = s.elapsed + dt]
    IN  IF TweenDone(timed.elapsed, tween.duration)
        THEN handle_completion([timed EXCEPT !.current = timed.target])
        ELSE Outcome([timed EXCEPT !.current =
                        Interpolate(timed.initial, timed.target,
                            EasedNum(tween.easing, timed.elapsed, tween.duration),
                            EasedDen(tween.easing, timed.elapsed, tween.duration))],
                     TRUE, <<>>)

ClampDt_None(dt) == dt

\* let dt = dt.min(1.0 / 30.0)
ClampDt(dt) == Min(dt, MAX_DT)

----------------------------------------------------------------------------
(* The f32 arithmetic of the sub-step loop.  An f32 time is counted in     *)
(* units of 2^-31 s; a value below 2^24 units is exact, a larger one keeps *)
(* 24 significant bits.                                                    *)

\* The f32 nearest to 1/240, 8947849 * 2^-31
PHYSICS_STEP_F32 == 8947849

\* The f32 nearest to 1/30, which is 8 times the f32 nearest to 1/240
MAX_DT_F32 == 8 * PHYSICS_STEP_F32

\* The spacing of the f32 values around n units
RECURSIVE Quantum(_)
Quantum(n) == IF n < 16777216 THEN 1 ELSE 2 * Quantum(n \div 2)

\* Rounding of an exact result to f32, to nearest, ties to even
F32(n) ==
    LET q == Quantum(n)
        lo == (n \div q) * q
    IN  IF 2 * (n - lo) < q THEN lo
        ELSE IF 2 * (n - lo) > q THEN lo + q
        ELSE IF (n \div q) % 2 = 0 THEN lo ELSE lo + q

\* The f32 that stands for a dt of k ticks
TicksToF32(k) ==
    F32((k \div PHYSICS_STEP) * PHYSICS_STEP_F32
        + ((k % PHYSICS_STEP) * PHYSICS_STEP_F32) \div PHYSICS_STEP)

\* let dt = dt.min(1.0 / 30.0), on f32 values
ClampDt32(dt) == Min(dt, MAX_DT_F32)

\* No update call is inside the sub-step loop
NoLoop == [active |-> FALSE, ticks |-> 0, dt |-> 0, remaining_dt |-> 0, step_dts |-> <<>>]

\* let mut remaining_dt = dt
EnterLoop(ticks, dt) ==
    [active |-> TRUE, ticks |-> ticks, dt |-> dt, remaining_dt |-> dt, step_dts |-> <<>>]

SubStep32_Unrounded(p) ==
    LET step_dt == Min(p.remaining_dt, PHYSICS_STEP_F32)
    IN  [p EXCEPT !.remaining_dt = p.remaining_dt - step_dt,
                  !.step_dts = Append(p.step_dts, step_dt)]

\* One pass of the loop body: step_dt = remaining_dt.min(PHYSICS_STEP),
\* remaining_dt -= step_dt
SubStep32(p) ==
    LET step_dt == Min(p.remaining_dt, PHYSICS_STEP_F32)
    IN  [p EXCEPT !.remaining_dt = F32(p.remaining_dt - step_dt),
                  !.step_dts = Append(p.step_dts, step_dt)]

----------------------------------------------------------------------------

AnimationState_update_NoGuard(s, dt) ==
    IF s.config.mode.kind = "Spring"
    THEN UpdateSpring(s, ClampDt(dt))
    ELSE UpdateTween(s, ClampDt(dt))

AnimationState_update(s, dt) ==
    IF ~s.running
    THEN Outcome(s, FALSE, <<>>)
    ELSE IF s.config.mode.kind = "Spring"
         THEN UpdateSpring(s, ClampDt(dt))
         ELSE UpdateTween(s, ClampDt(dt))

----------------------------------------------------------------------------
(* AnimationSequence and MotionState *)

NoSeq == [steps |-> <<>>, current_step |-> 0, on_complete |-> NoCb,
          id |-> 0, current_value |-> 0]

AnimationStep(target, config) == [target |-> target, config |-> config]

\* AnimationSequence::new().then(..)...on_complete(..) wrapped in a
\* SequenceState; id tells the installed sequences apart.
SequenceState(steps, on_complete, id, current_value) ==
    [steps |-> steps, current_step |-> 0, on_complete |-> on_complete,
     id |-> id, current_value |-> current_value]

MotionState_new(initial) == [base |-> AnimationState_new(initial), sequence |-> NoSeq]

\* total_steps as u8 - 1
LastStep(total_steps) == U8(U8(total_steps) - 1)

\* What the `if let Some(sequence_state)` block of MotionState::update
\* leaves behind: the base, the sequence slot, still_animating, the
\* callbacks invoked and the arm that ran.
Advanced(b, seq, still, cb, branch) ==
    [base |-> b, sequence |-> seq, still |-> still, cb |-> cb, branch |-> branch]

NextStep_Repeat(seq) == seq.steps[seq.current_step + 1]

\* &sequence_state.sequence.steps[(current_step + 1) as usize]
NextStep(seq) == seq.steps[seq.current_step + 2]

SequenceLess_DoubleIncrement(b, seq) ==
    Advanced(AnimationState_animate_to(b, NextStep(seq).target, NextStep(seq).config),
             [seq EXCEPT !.current_step = U8(seq.current_step + 2)],
             TRUE, <<>>, "advance")

\* The Less arm: start the next step
SequenceLess(b, seq) ==
    Advanced(AnimationState_animate_to(b, NextStep(seq).target, NextStep(seq).config),
             [seq EXCEPT !.current_step = U8(seq.current_step + 1)],
             TRUE, <<>>, "advance")

SequenceEqual_KeepsSlot(b, seq) ==
    Advanced(AnimationState_stop(b), [seq EXCEPT !.on_complete = NoCb], FALSE,
             IF seq.on_complete # NoCb THEN <<seq.on_complete>> ELSE <<>>,
             "complete")

\* The Equal arm: take and invoke on_complete, clear the slot, stop the base
SequenceEqual(b, seq) ==
    Advanced(AnimationState_stop(b), NoSeq, FALSE,
             IF seq.on_complete # NoCb THEN <<seq.on_complete>> ELSE <<>>,
             "complete")

\* The base and the slot at the call of the sequence's on_complete in the
\* Equal arm: the callback has been taken out of the slot, and neither
\* should_clear_sequence nor base.stop() has been reached.
SequenceCallbackMoment(b, seq) ==
    [base |-> b, sequence |-> [seq EXCEPT !.on_complete = NoCb]]

AdvanceSequence(b, seq) ==
    LET current_step == seq.current_step
        total_steps == Len(seq.steps)
    IN  IF seq = NoSeq
        THEN Advanced(b, seq, FALSE, <<>>, "none")
        ELSE IF b.running
        THEN Advanced(b, seq, TRUE, <<>>, "running")
        ELSE IF current_step < LastStep(total_steps)
        THEN SequenceLess(b, seq)
        ELSE IF current_step = LastStep(total_steps)
        THEN SequenceEqual(b, seq)
        ELSE Advanced(b, seq, FALSE, <<>>, "greater")

MotionState_update_BaseOnly(b, seq, dt) ==
    LET a == AdvanceSequence(b, seq)
        u == AnimationState_update(a.base, dt)
    IN  [base |-> u.st, sequence |-> a.sequence, ret |-> u.ret,
         cb |-> a.cb \o u.cb, branch |-> a.branch]

MotionState_update_AdvanceOnly(b, seq, dt) ==
    LET a == AdvanceSequence(b, seq)
        u == IF a.branch = "advance"
             THEN Outcome(a.base, TRUE, <<>>)
             ELSE AnimationState_update(a.base, dt)
    IN  [base |-> u.st, sequence |-> a.sequence, ret |-> a.still \/ u.ret,
         cb |-> a.cb \o u.cb, branch |-> a.branch]

MotionState_update_EagerComplete(b, seq, dt) ==
    LET a == AdvanceSequence(b, seq)
        u == AnimationState_update(a.base, dt)
    IN  IF a.sequence # NoSeq /\ ~u.st.running
           /\ a.sequence.current_step = LastStep(Len(a.sequence.steps))
        THEN LET e == SequenceEqual(u.st, a.sequence)
             IN  [base |-> e.base, sequence |-> e.sequence, ret |-> FALSE,
                  cb |-> a.cb \o u.cb \o e.cb, branch |-> a.branch]
        ELSE [base |-> u.st, sequence |-> a.sequence, ret |-> a.still \/ u.ret,
              cb |-> a.cb \o u.cb, branch |-> a.branch]

MotionState_update(b, seq, dt) ==
    LET a == AdvanceSequence(b, seq)
        u == AnimationState_update(a.base, dt)
    IN  [base |-> u.st, sequence |-> a.sequence, ret |-> a.still \/ u.ret,
         cb |-> a.cb \o u.cb, branch |-> a.branch]

MotionState_is_running_BaseOnly == base.running

MotionState_is_running == base.running \/ sequence # NoSeq

MotionState_get_value == base.current

----------------------------------------------------------------------------
(* Inputs *)

\* What the caller asks animate_to for: a target, a mode, a loop policy and
\* whether the configuration carries an on_complete callback.
Request(target, mode, loop_mode, cb) ==
    [target |-> target, mode |-> mode, loop_mode |-> loop_mode, cb |-> cb]

Requests ==
    { Request(100 * ValueScale, Tween(18, "Linear"), LoopNone, TRUE),
      Request(50 * ValueScale, Tween(12, "QuadIn"), LoopTimes(3), TRUE),
      Request(50 * ValueScale, Tween(16, "Linear"), LoopInfinite, TRUE),
      Request(100 * ValueScale, Spring(1, 8, 256), LoopUnset, FALSE) }

Dts == {9, 40}

Delays == {8}

StepChoices ==
    { Request(100 * ValueScale, Tween(16, "Linear"), LoopNone, TRUE),
      Request(50 * ValueScale, Tween(18, "QuadIn"), LoopTimes(2), FALSE) }

Plans == UNION { [1..n -> StepChoices] : n \in 0..MaxSteps }

\* The steps of a plan as the caller builds them with then(): step i of the
\* sequence made by call `id` carries the callback <<id, i>>.
StepsOf(plan, id) ==
    [i \in 1..Len(plan) |->
        AnimationStep(plan[i].target,
            AnimationConfig(plan[i].mode, plan[i].loop_mode,
                            IF plan[i].cb THEN <<id, i>> ELSE NoCb))]

\* The plan a list of steps was built from
PlanOf(steps) ==
    [i \in 1..Len(steps) |->
        Request(steps[i].target, steps[i].config.mode, steps[i].config.loop_mode,
                steps[i].config.on_complete # NoCb)]

----------------------------------------------------------------------------
(* The route context of page_transitions.rs: FromTo(from, to) during a     *)
(* transition, In(to) when settled.  Routes are numbers; NoRoute fills the *)
(* absent `from` of In.                                                    *)

MaxRoutes == 10

Routes == 1..MaxRoutes

NoRoute == 0

FromTo(from, to) == [kind |-> "FromTo", from |-> from, to |-> to]

In(to) == [kind |-> "In", from |-> NoRoute, to |-> to]

target_route(ctx) == ctx.to

set_target_route_KeepsFrom(ctx, to) ==
    IF ctx.kind = "FromTo"
    THEN FromTo(ctx.from, to)
    ELSE FromTo(ctx.to, to)

set_target_route(ctx, to) ==
    IF ctx.kind = "FromTo"
    THEN FromTo(ctx.to, to)
    ELSE FromTo(ctx.to, to)

settle(ctx) ==
    IF ctx.kind = "FromTo" THEN In(ctx.to) ELSE ctx

(* The driver's operations.  Call number k hands out the callbacks <<k, i>>: *)
(* <<k, 1>> for animate_to's configuration, <<k, i>> for step i of a       *)
(* sequence and <<k, 0>> for the sequence's own on_complete.               *)

Init ==
    /\ base = MotionState_new(0).base
    /\ sequence = MotionState_new(0).sequence
    /\ calls = 0
    /\ fired = <<>>
    /\ cancelled = FALSE
    /\ preempted = 0
    /\ nUpd = 0
    /\ physics = NoLoop
    /\ panicked = FALSE
    /\ host = [pc |-> "top", dt |-> 0, delay |-> 0]
    /\ router = In(1)

\* The observers at a call that starts something new
NewCall ==
    /\ calls' = calls + 1
    /\ fired' = <<>>
    /\ cancelled' = FALSE
    /\ preempted' = sequence.id
    /\ nUpd' = 0
    /\ UNCHANGED <<physics, panicked, host, router>>

MotionState_animate_to_KeepsSequence(target, config) ==
    /\ sequence' = sequence
    /\ base' = AnimationState_animate_to(base, target, config)

MotionState_animate_to(target, config) ==
    /\ sequence' = NoSeq
    /\ base' = AnimationState_animate_to(base, target, config)

animate_to(r) ==
    /\ calls < MaxCalls
    /\ MotionState_animate_to(r.target,
          AnimationConfig(r.mode, r.loop_mode, IF r.cb THEN <<calls + 1, 1>> ELSE NoCb))
    /\ NewCall

MotionState_animate_sequence_ClearsOnEmpty(seq) ==
    IF Len(seq.steps) = 0
    THEN sequence' = NoSeq /\ UNCHANGED base
    ELSE LET first_step == seq.steps[1]
             started == AnimationState_animate_to(base, first_step.target, first_step.config)
         IN  /\ base' = started
             /\ sequence' = [seq EXCEPT !.current_value = started.current]

MotionState_animate_sequence_KeepsInstalled(seq) ==
    IF Len(seq.steps) = 0
    THEN UNCHANGED <<base, sequence>>
    ELSE LET first_step == seq.steps[1]
             started == AnimationState_animate_to(base, first_step.target, first_step.config)
         IN  /\ base' = started
             /\ sequence' = IF sequence # NoSeq THEN sequence
                            ELSE [seq EXCEPT !.current_value = started.current]

MotionState_animate_sequence(seq) ==
    IF Len(seq.steps) = 0
    THEN UNCHANGED <<base, sequence>>
    ELSE LET first_step == seq.steps[1]
             started == AnimationState_animate_to(base, first_step.target, first_step.config)
         IN  /\ base' = started
             /\ sequence' = [seq EXCEPT !.current_value = started.current]

animate_sequence(plan, withCb) ==
    /\ Len(plan) > 0 => calls < MaxCalls
    /\ MotionState_animate_sequence(
          SequenceState(StepsOf(plan, calls + 1),
                        IF withCb THEN <<calls + 1, 0>> ELSE NoCb, calls + 1, 0))
    /\ IF Len(plan) = 0
       THEN UNCHANGED <<calls, fired, cancelled, preempted, nUpd, physics, panicked, host, router>>
       ELSE NewCall

update(dt) ==
    LET r == MotionState_update(base, sequence, dt)
    IN  /\ base' = r.base
        /\ sequence' = r.sequence
        /\ fired' = fired \o r.cb
        /\ UNCHANGED <<calls, cancelled, preempted>>

reset ==
    /\ sequence' = NoSeq
    /\ base' = AnimationState_reset(base)
    /\ cancelled' = TRUE
    /\ UNCHANGED <<calls, fired, preempted, nUpd, physics, panicked, host, router>>

stop_KeepsSequence ==
    /\ sequence' = sequence
    /\ base' = AnimationState_stop(base)
    /\ cancelled' = TRUE
    /\ UNCHANGED <<calls, fired, preempted, nUpd, physics, panicked, host, router>>

stop ==
    /\ sequence' = NoSeq
    /\ base' = AnimationState_stop(base)
    /\ cancelled' = TRUE
    /\ UNCHANGED <<calls, fired, preempted, nUpd, physics, panicked, host, router>>

delay_Restarts(duration) ==
    /\ base' = [base EXCEPT !.config.delay = duration, !.running = TRUE]
    /\ UNCHANGED <<sequence, calls, fired, cancelled, preempted, nUpd, physics, panicked, host, router>>

delay(duration) ==
    /\ base' = [base EXCEPT !.config.delay = duration]
    /\ UNCHANGED <<sequence, calls, fired, cancelled, preempted, nUpd, physics, panicked, host, router>>

AnimateTo == \E r \in Requests : animate_to(r)

AnimateSequence == \E p \in Plans, cb \in BOOLEAN : animate_sequence(p, cb)

Update == \E dt \in Dts : update(dt) /\ UNCHANGED <<nUpd, physics, panicked, host, router>>

Reset == reset

Stop == stop

Delay == \E d \in Delays : delay(d)

Next == AnimateTo \/ AnimateSequence \/ Update \/ Reset \/ Stop \/ Delay

Spec == Init /\ [][Next]_vars

----------------------------------------------------------------------------
(* One bare animation on a fresh driver, driven by update calls alone; nUpd *)
(* counts the update calls made since animate_to.                          *)

HalfSecond == TicksPerSecond \div 2

ScenarioRequests ==
    { Request(100 * ValueScale, Tween(TicksPerSecond, "Linear"), LoopNone, TRUE),
      Request(100 * ValueScale, Tween(TicksPerSecond, "QuadIn"), LoopNone, FALSE),
      Request(50 * ValueScale, Tween(TicksPerSecond, "Linear"), LoopNone, TRUE),
      Request(100 * ValueScale, Tween(HalfSecond, "Linear"), LoopNone, TRUE) }

TickRequests ==
    Requests \cup
    { Request(100 * ValueScale, Tween(24, "Linear"), LoopTimes(1), TRUE),
      Request(50 * ValueScale, Tween(24, "QuadIn"), LoopTimes(2), FALSE),
      Request(100 * ValueScale, Spring(1, 8, 256), LoopTimes(2), TRUE),
      Request(100 * ValueScale, Spring(1, 8, 256), LoopInfinite, TRUE),
      Request(100 * ValueScale, Tween(0, "Linear"), LoopNone, TRUE),
      Request(50 * ValueScale, Tween(0, "QuadIn"), LoopNone, FALSE) }

ScenarioStart == calls = 0 /\ \E r \in ScenarioRequests : animate_to(r)

HalfSecondTick ==
    nUpd < MaxCount /\ update(HalfSecond) /\ nUpd' = nUpd + 1 /\ UNCHANGED <<physics, panicked, host, router>>

ScenarioNext == ScenarioStart \/ HalfSecondTick

ScenarioSpec == Init /\ [][ScenarioNext]_vars

TickStart == calls = 0 /\ \E r \in TickRequests : animate_to(r)

Tick ==
    nUpd < MaxCount /\ \E dt \in Dts : update(dt) /\ nUpd' = nUpd + 1 /\ UNCHANGED <<physics, panicked, host, router>>

TickNext == TickStart \/ Tick

TickSpec == Init /\ [][TickNext]_vars

----------------------------------------------------------------------------
(* One bare animation whose configuration carries a start delay, on a      *)
(* fresh driver, driven by update calls alone.                             *)

\* A configuration with its delay field set
WithDelay(config, duration) == [config EXCEPT !.delay = duration]

DelayedStart ==
    /\ calls = 0
    /\ \E r \in Requests, d \in Delays :
          MotionState_animate_to(r.target,
              WithDelay(AnimationConfig(r.mode, r.loop_mode,
                                        IF r.cb THEN <<calls + 1, 1>> ELSE NoCb), d))
    /\ NewCall

DelayNext == DelayedStart \/ Tick

DelaySpec == Init /\ [][DelayNext]_vars

----------------------------------------------------------------------------
(* One bare animation on a fresh driver, each update call of a Spring      *)
(* followed through the sub-step loop of the Spring arm: the call enters   *)
(* the loop with its clamped dt, takes the sub-steps one by one and, once  *)
(* remaining_dt > 0.0 fails, leaves the loop and finishes.  An update call *)
(* of a Tween has no loop to go through.                                   *)

\* The dt values of the calls: a tick count and the f32 passed for it
Dts32 ==
    { [ticks |-> k, f32 |-> TicksToF32(k)] :
        k \in Dts \cup {0, MAX_DT, HalfSecond} }

UpdateEnters ==
    /\ ~physics.active
    /\ base.running
    /\ base.config.mode.kind = "Spring"
    /\ nUpd < MaxCount
    /\ \E d \in Dts32 : physics' = EnterLoop(d.ticks, ClampDt32(d.f32))
    /\ UNCHANGED <<base, sequence, calls, fired, cancelled, preempted, nUpd, panicked, host, router>>

SubStep ==
    /\ physics.active
    /\ physics.remaining_dt > 0
    /\ physics' = SubStep32(physics)
    /\ UNCHANGED <<base, sequence, calls, fired, cancelled, preempted, nUpd, panicked, host, router>>

UpdateLeaves ==
    /\ physics.active
    /\ ~(physics.remaining_dt > 0)
    /\ update(physics.ticks)
    /\ physics' = NoLoop
    /\ nUpd' = nUpd + 1
    /\ UNCHANGED <<panicked, host, router>>

TweenTick == base.config.mode.kind = "Tween" /\ Tick

SubStepNext == TickStart \/ UpdateEnters \/ SubStep \/ UpdateLeaves \/ TweenTick

SubStepSpec == Init /\ [][SubStepNext]_vars /\ WF_vars(SubStep)

----------------------------------------------------------------------------
(* One Spring animation with loop policy None on a fresh driver, driven by *)
(* update calls of one physics step (1/240 s) each, for as long as they    *)
(* change anything.  The springs are damped ones and one with damping 0.   *)

SpringChoices ==
    { Spring(1, 8, 256), Spring(1, 16, 256), Spring(1, 4, 256),
      Spring(1, 1, 16), Spring(1, 2, 16), Spring(1, 0, 4) }

SpringRequests ==
    { Request(t * ValueScale, m, LoopNone, cb) :
        t \in {50, 100}, m \in SpringChoices, cb \in BOOLEAN }

SpringStart == calls = 0 /\ \E r \in SpringRequests : animate_to(r)

SpringUpdate == update(PHYSICS_STEP) /\ UNCHANGED <<nUpd, physics, panicked, host, router>>

SpringNext == SpringStart \/ SpringUpdate

SpringSpec == Init /\ [][SpringNext]_vars /\ WF_vars(SpringUpdate)

----------------------------------------------------------------------------
(* One sequence of finite Tween steps on a fresh driver, then update calls *)
(* with dt > 0 for as long as they change anything.                        *)

FiniteSteps ==
    { c \in StepChoices : c.mode.kind = "Tween" /\ c.loop_mode.kind \in {"None", "Times"} }

FinitePlans == UNION { [1..n -> FiniteSteps] : n \in 1..MaxSteps }

InstallFinite == calls = 0 /\ \E p \in FinitePlans, cb \in BOOLEAN : animate_sequence(p, cb)

PositiveUpdate ==
    \E dt \in { d \in Dts : d > 0 } : update(dt) /\ UNCHANGED <<nUpd, physics, panicked, host, router>>

LiveNext == InstallFinite \/ PositiveUpdate

LiveSpec == Init /\ [][LiveNext]_vars /\ WF_vars(PositiveUpdate)

----------------------------------------------------------------------------
(* One long sequence on a fresh driver: step i animates to the value i in  *)
(* 1/30 s, and every update call has dt = 1/30 s, so that each call        *)
(* completes the step under way.  The lengths lie around 2^8.              *)

LongLengths == {255, 256, 257}

LongPlan(n) ==
    [i \in 1..n |-> Request(i * ValueScale, Tween(MAX_DT, "Linear"), LoopNone, FALSE)]

InstallLong == calls = 0 /\ \E n \in LongLengths : animate_sequence(LongPlan(n), TRUE)

\* `total_steps as u8 - 1` is evaluated with total_steps as u8 = 0: the
\* subtraction overflows
Underflows(b, seq) == seq # NoSeq /\ ~b.running /\ U8(Len(seq.steps)) = 0

\* An update call.  Where the subtraction overflows, a build with overflow
\* checks panics before anything is written, and one without them wraps to
\* 255 and goes on (LastStep).
LongUpdate ==
    /\ ~panicked
    /\ \/ update(MAX_DT) /\ UNCHANGED <<nUpd, physics, panicked, host, router>>
       \/ /\ Underflows(base, sequence)
          /\ panicked' = TRUE
          /\ UNCHANGED <<base, sequence, calls, fired, cancelled, preempted, nUpd, physics, host, router>>

LongNext == InstallLong \/ LongUpdate

LongSpec == Init /\ [][LongNext]_vars

----------------------------------------------------------------------------
(* Sequences with a step that loops for ever, on a fresh driver; any call  *)
(* of the driver may follow.  nUpd counts the update calls since the       *)
(* latest animate_to or animate_sequence.                                  *)

InfiniteSteps ==
    { Request(50 * ValueScale, Tween(16, "Linear"), LoopInfinite, TRUE),
      Request(100 * ValueScale, Tween(12, "QuadIn"), LoopInfinite, FALSE) }

BlockingPlans ==
    { p \in UNION { [1..n -> StepChoices \cup InfiniteSteps] : n \in 1..MaxSteps } :
        \E i \in DOMAIN p : p[i] \in InfiniteSteps }

InstallBlocking ==
    calls = 0 /\ \E p \in BlockingPlans, cb \in BOOLEAN : animate_sequence(p, cb)

BlockingUpdate ==
    /\ nUpd < MaxCount
    /\ \E dt \in Dts : update(dt)
    /\ nUpd' = nUpd + 1
    /\ UNCHANGED <<physics, panicked, host, router>>

BlockingNext ==
    InstallBlocking \/ BlockingUpdate \/ (calls > 0 /\ AnimateTo) \/ Stop \/ Reset \/ Delay

BlockingSpec == Init /\ [][BlockingNext]_vars

----------------------------------------------------------------------------
(* The loop of use_motion around a fresh driver.  The loop is an async     *)
(* task: the component's calls of animate_to run while it awaits a delay.  *)
(* host.dt is the time from the previous iteration's `now` to this one's,  *)
(* which is the time the delay in between took.  The delays are in ticks,  *)
(* rounded up; a timer wakes the task on time or late.                     *)

short_delay == 8

normal_delay == 16

idle_delay == 48

\* dt > 0.15
SlowFrame == 72

TimerLateness == {0, 30}

HostRequests ==
    { r \in TickRequests :
        r.mode.kind = "Tween" /\ r.loop_mode.kind \in {"None", "Times"} }

HostIterate_UpdatesAlways ==
    /\ host.pc = "top"
    /\ update(host.dt)
    /\ nUpd' = nUpd + 1
    /\ host' = [host EXCEPT !.pc = "sleep",
                            !.delay = IF MotionState_is_running
                                      THEN IF host.dt > SlowFrame
                                           THEN short_delay ELSE normal_delay
                                      ELSE idle_delay]
    /\ UNCHANGED <<physics, panicked, router>>

\* One iteration up to its await
HostIterate ==
    /\ host.pc = "top"
    /\ IF MotionState_is_running
       THEN /\ update(host.dt)
            /\ nUpd' = nUpd + 1
            /\ host' = [host EXCEPT !.pc = "sleep",
                                    !.delay = IF host.dt > SlowFrame
                                              THEN short_delay ELSE normal_delay]
       ELSE /\ host' = [host EXCEPT !.pc = "sleep", !.delay = idle_delay]
            /\ UNCHANGED <<base, sequence, calls, fired, cancelled, preempted, nUpd>>
    /\ UNCHANGED <<physics, panicked, router>>

\* The delay is over: last_frame = now, and the next iteration takes its now
HostWake ==
    /\ host.pc = "sleep"
    /\ \E late \in TimerLateness :
          host' = [host EXCEPT !.pc = "top", !.dt = host.delay + late]
    /\ UNCHANGED <<base, sequence, calls, fired, cancelled, preempted, nUpd, physics, panicked, router>>

HostAnimateTo ==
    /\ host.pc = "sleep"
    /\ \E r \in HostRequests : animate_to(r)

HostNext == HostIterate \/ HostWake \/ HostAnimateTo

HostSpec == Init /\ [][HostNext]_vars /\ WF_vars(HostIterate) /\ WF_vars(HostWake)

----------------------------------------------------------------------------
(* The route context alone, under any sequence of its two mutators.        *)

SetTargetRoute ==
    /\ \E to \in Routes : router' = set_target_route(router, to)
    /\ UNCHANGED <<base, sequence, calls, fired, cancelled, preempted, nUpd, physics,
                   panicked, host>>

Settle ==
    /\ router' = settle(router)
    /\ UNCHANGED <<base, sequence, calls, fired, cancelled, preempted, nUpd, physics,
                   panicked, host>>

RouterNext == SetTargetRoute \/ Settle

RouterSpec == Init /\ [][RouterNext]_vars

----------------------------------------------------------------------------
(* Vocabulary of the properties *)

Count(log, id) == Cardinality({ i \in DOMAIN log : log[i] = id })

IsTween(s) == s.config.mode.kind = "Tween"

LoopKind(s) == LoopOf(s.config).kind

\* The mode's own completion test passes in update(dt): the same call would
\* finish the animation if its loop policy were None.
ModeCompletes(s, dt) ==
    /\ s.running
    /\ ~AnimationState_update(
           [s EXCEPT !.config.loop_mode = LoopNone, !.config.on_complete = NoCb], dt).ret

\* The on_complete of the configuration in force, as the list of callbacks
\* its invocation adds
OwnCallback(s) ==
    IF s.config.on_complete # NoCb THEN <<s.config.on_complete>> ELSE <<>>

LastTarget(steps) == steps[Len(steps)].target

RECURSIVE SumSeq(_)
SumSeq(q) == IF q = <<>> THEN 0 ELSE q[1] + SumSeq(Tail(q))

----------------------------------------------------------------------------
(* C1: while a sequence is installed the base's target is the target of the *)
(* step at current_step; an update call keeps the steps and either leaves   *)
(* current_step alone or adds exactly 1 to it, and it removes the sequence  *)
(* only from its last step: the targets are visited in append order, with   *)
(* no step skipped, repeated or reordered.                                  *)
C1_SequenceOrder ==
    /\ [](sequence # NoSeq =>
            /\ sequence.current_step < Len(sequence.steps)
            /\ base.target = sequence.steps[sequence.current_step + 1].target)
    /\ [][(sequence # NoSeq /\ \E dt \in Dts : update(dt)) =>
            IF sequence' # NoSeq
            THEN /\ sequence'.steps = sequence.steps
                 /\ sequence'.id = sequence.id
                 /\ sequence'.current_step
                        \in {sequence.current_step, sequence.current_step + 1}
                 /\ sequence'.current_step # sequence.current_step => ~base.running
            ELSE sequence.current_step = Len(sequence.steps) - 1]_vars

\* C1 witness: a sequence whose first two targets differ has reached its second step
C1_Witness ==
    /\ sequence # NoSeq
    /\ sequence.current_step = 1
    /\ sequence.steps[1].target # sequence.steps[2].target
    /\ base.target = sequence.steps[2].target
    /\ base.initial = sequence.steps[1].target

----------------------------------------------------------------------------
(* C2: a non-empty sequence of Tween steps with loop policy None or        *)
(* Times(n), driven by update calls with dt > 0 alone, reaches a state     *)
(* with the slot empty, is_running() false, the value at the last step's   *)
(* target and the sequence's on_complete invoked exactly once (never, if   *)
(* it has none); on_complete is never invoked twice, never while the       *)
(* sequence is still installed, and only from the finished last step.      *)
C2_SequenceCompletes ==
    /\ \A p \in FinitePlans : \A cb \in BOOLEAN :
          (/\ sequence # NoSeq
           /\ sequence.steps = StepsOf(p, 1)
           /\ sequence.on_complete = (IF cb THEN <<1, 0>> ELSE NoCb))
          ~> (/\ sequence = NoSeq
              /\ ~MotionState_is_running
              /\ MotionState_get_value = LastTarget(p)
              /\ Count(fired, <<1, 0>>) = (IF cb THEN 1 ELSE 0))
    /\ [](Count(fired, <<1, 0>>) <= 1)
    /\ [](sequence # NoSeq => Count(fired, <<1, 0>>) = 0)
    /\ [][Count(fired', <<1, 0>>) > Count(fired, <<1, 0>>) =>
            /\ sequence # NoSeq
            /\ sequence.current_step = Len(sequence.steps) - 1
            /\ ~base.running
            /\ base.current = LastTarget(sequence.steps)]_vars

\* C2 witness: a two-step sequence has run to its end and invoked on_complete once
C2_Witness ==
    /\ calls = 1
    /\ sequence = NoSeq
    /\ ~MotionState_is_running
    /\ Count(fired, <<1, 0>>) = 1
    /\ Count(fired, <<1, 2>>) = 1
    /\ fired[Len(fired)] = <<1, 0>>

----------------------------------------------------------------------------
(* C3: the scalar driver created at 0.0, after animate_to(100.0, Tween of  *)
(* 1 s, linear) and then update(0.5) calls only.                           *)

Scenario ==
    /\ calls = 1
    /\ base.initial = 0
    /\ base.target = 100 * ValueScale
    /\ base.config.mode = Tween(TicksPerSecond, "Linear")
    /\ LoopKind(base) = "None"

\* Number of clamped updates a 1 s tween takes
ScenarioTicks == TicksPerSecond \div MAX_DT

\* C3 as stated: after update(0.5) and update(0.5) the value is 100.0 and
\* the driver is no longer running.
C3_Original ==
    (Scenario /\ nUpd = 2) =>
        (MotionState_get_value = 100 * ValueScale /\ ~MotionState_is_running)

\* C3 amended: every update(0.5) is clamped to 1/30 s, so after two of them
\* the driver is still running at 100 * (2/30); it is running with the value
\* on the linear ramp until the 30th update, which leaves exactly 100.0 and
\* is_running() false; from then on update returns false and the value
\* stays 100.0.
C3_ClampedScenario ==
    Scenario =>
        /\ nUpd = 2 =>
              /\ MotionState_is_running
              /\ MotionState_get_value =
                    Interpolate(0, 100 * ValueScale, 2, ScenarioTicks)
        /\ nUpd < ScenarioTicks =>
              /\ MotionState_is_running
              /\ MotionState_get_value =
                    Interpolate(0, 100 * ValueScale, nUpd, ScenarioTicks)
              /\ MotionState_get_value < 100 * ValueScale
        /\ nUpd >= ScenarioTicks =>
              /\ ~MotionState_is_running
              /\ MotionState_get_value = 100 * ValueScale
              /\ ~MotionState_update(base, sequence, HalfSecond).ret
              /\ MotionState_update(base, sequence, HalfSecond).base = base

\* C3 witness: the 30 updates that finish the tween and one more have been made
C3_Witness ==
    /\ Scenario
    /\ nUpd = ScenarioTicks + 1
    /\ ~MotionState_is_running
    /\ MotionState_get_value = 100 * ValueScale

----------------------------------------------------------------------------
(* C4: an update of a running Tween with loop policy None adds the clamped *)
(* dt to elapsed; if the sum is below the duration the animation stays     *)
(* running, update returns true and current is initial.interpolate(target, *)
(* easing(elapsed / duration)); otherwise current is exactly target,       *)
(* running is false and update returns false.                              *)
C4_TweenStep ==
    [][\A dt \in Dts :
        (update(dt) /\ base.running /\ IsTween(base) /\ LoopKind(base) = "None") =>
            LET duration == base.config.mode.duration
                easing == base.config.mode.easing
                elapsed == base.elapsed + Min(dt, MAX_DT)
                ret == AnimationState_update(base, dt).ret
            IN  IF elapsed < duration
                THEN /\ base'.elapsed = elapsed
                     /\ base'.running
                     /\ ret
                     /\ base'.current =
                           Interpolate(base.initial, base.target,
                                       EasedNum(easing, elapsed, duration),
                                       EasedDen(easing, elapsed, duration))
                ELSE /\ base'.current = base.target
                     /\ ~base'.running
                     /\ ~ret]_vars

\* C4 witness: a Tween with loop policy None stopped at its target with
\* elapsed exactly its duration, away from where it started
C4_Witness ==
    /\ IsTween(base) /\ LoopKind(base) = "None"
    /\ ~base.running
    /\ ~cancelled
    /\ base.elapsed = base.config.mode.duration
    /\ base.current = base.target
    /\ base.initial # base.target

----------------------------------------------------------------------------
(* C5: under Times(n), n >= 1, with update calls only: while the animation *)
(* runs, current_loop counts the restarts made and stays below n and no    *)
(* callback has been invoked; a mode completion with current_loop + 1 < n  *)
(* restarts (current = initial, elapsed = 0, velocity = zero, running) and *)
(* adds 1 to current_loop, any other update leaves current_loop alone; the *)
(* completion with current_loop + 1 = n, the n-th, stops at current =      *)
(* target and invokes on_complete, so that it is invoked exactly once.     *)
C5_LoopCount ==
    /\ []((calls = 1 /\ LoopKind(base) = "Times") =>
            IF base.running
            THEN /\ base.current_loop < LoopOf(base.config).count
                 /\ fired = <<>>
            ELSE /\ base.current = base.target
                 /\ fired = OwnCallback(base))
    /\ [][\A dt \in Dts :
            (update(dt) /\ base.running /\ LoopKind(base) = "Times") =>
                IF ~ModeCompletes(base, dt)
                THEN base'.running /\ base'.current_loop = base.current_loop
                ELSE IF base.current_loop + 1 < LoopOf(base.config).count
                THEN /\ base'.running
                     /\ base'.current_loop = base.current_loop + 1
                     /\ base'.current = base.initial
                     /\ base'.elapsed = 0
                     /\ base'.velocity = Zero
                     /\ fired' = fired
                ELSE /\ ~base'.running
                     /\ base'.current = base.target
                     /\ fired' = fired \o OwnCallback(base)]_vars

\* C5 witness: a Times(3) animation has stopped at its target after at least
\* three updates, its callback invoked once
C5_Witness ==
    /\ LoopOf(base.config) = LoopTimes(3)
    /\ ~base.running
    /\ base.current = base.target
    /\ base.current # base.initial
    /\ fired = <<<<1, 1>>>>
    /\ nUpd >= 3

----------------------------------------------------------------------------
(* C6: under Infinite, with update calls only, the animation is running in *)
(* every state, is_running() is true, every update returns true and no     *)
(* callback is ever invoked; a mode completion resets current = initial,   *)
(* elapsed = 0 and velocity = zero and leaves running true.                *)
C6_InfiniteLoop ==
    /\ []((calls = 1 /\ LoopKind(base) = "Infinite") =>
            /\ base.running
            /\ MotionState_is_running
            /\ fired = <<>>
            /\ \A dt \in Dts : MotionState_update(base, sequence, dt).ret)
    /\ [][\A dt \in Dts :
            (update(dt) /\ LoopKind(base) = "Infinite" /\ ModeCompletes(base, dt)) =>
                /\ base'.running
                /\ base'.current = base.initial
                /\ base'.elapsed = 0
                /\ base'.velocity = Zero]_vars

\* C6 witness: an Infinite animation is back at its initial value, still
\* running, after every update the bound allows
C6_Witness ==
    /\ LoopKind(base) = "Infinite"
    /\ nUpd = MaxCount
    /\ base.running
    /\ base.current = base.initial
    /\ base.elapsed = 0
    /\ fired = <<>>

----------------------------------------------------------------------------
(* C7: every callback invoked belongs to the latest animate_to or          *)
(* animate_sequence call and is invoked at most once; a configuration's    *)
(* on_complete is invoked only by an update call that leaves the base      *)
(* stopped at its target with that configuration; stop(), reset(), delay() *)
(* and a new animate_to or animate_sequence invoke nothing, and nothing is *)
(* invoked after stop() or reset() until the next such call.               *)
C7_CallbackOnce ==
    /\ [](\A i \in DOMAIN fired :
            /\ fired[i][1] = calls
            /\ \A j \in DOMAIN fired : fired[i] = fired[j] => i = j)
    /\ [][(calls' = calls /\ fired' # fired) =>
            /\ \E dt \in Dts : update(dt)
            /\ \A i \in DOMAIN fired' :
                  (i > Len(fired) /\ fired'[i][2] >= 1) =>
                      /\ base'.config.on_complete = fired'[i]
                      /\ ~base'.running
                      /\ base'.current = base'.target
                      /\ LoopKind(base') # "Infinite"]_vars
    /\ [][(stop \/ reset \/ \E d \in Delays : delay(d)) => fired' = fired]_vars
    /\ [][calls' # calls => fired' = <<>>]_vars
    /\ [][(cancelled /\ cancelled') => fired' = fired]_vars

\* C7 witness: the second call's animation completed and invoked its
\* callback, and stop() or reset() was called afterwards
C7_Witness ==
    /\ calls = 2
    /\ fired = <<<<2, 1>>>>
    /\ cancelled
    /\ ~base.running

----------------------------------------------------------------------------
(* C8: animate_sequence with no steps changes neither the base state       *)
(* (current, target, initial, velocity, config, running, elapsed,          *)
(* current_loop) nor the installed sequence and its current_step.          *)
C8_EmptySequenceNoOp ==
    [][\A cb \in BOOLEAN :
        animate_sequence(<<>>, cb) => (base' = base /\ sequence' = sequence)]_vars

\* C8 witness: a sequence is installed, past its first step and in flight,
\* where the empty call can be made
C8_Witness ==
    /\ sequence # NoSeq
    /\ sequence.current_step >= 1
    /\ base.running
    /\ base.elapsed > 0
    /\ ENABLED animate_sequence(<<>>, TRUE)

----------------------------------------------------------------------------
(* C9: animate_to empties the sequence slot and starts the bare animation; *)
(* a sequence in the slot is always the one the latest call installed and  *)
(* every callback invoked is one of the latest call, so a preempted        *)
(* sequence starts no further step and its on_complete is never invoked.   *)
C9_AnimateToPreempts ==
    /\ [][\A r \in Requests :
            animate_to(r) =>
                /\ sequence' = NoSeq
                /\ base'.running
                /\ base'.target = r.target
                /\ base'.initial = base.current]_vars
    /\ [](sequence # NoSeq => sequence.id = calls)
    /\ [](\A i \in DOMAIN fired : fired[i][1] = calls)
    /\ [][(sequence' # NoSeq /\ sequence'.current_step > 0) =>
            (sequence # NoSeq /\ sequence'.id = sequence.id)]_vars

\* C9 witness: animate_to removed an installed sequence and its own
\* animation ran to completion
C9_Witness ==
    /\ preempted # 0
    /\ preempted < calls
    /\ sequence = NoSeq
    /\ ~cancelled
    /\ ~base.running
    /\ fired = <<<<calls, 1>>>>

----------------------------------------------------------------------------
(* C10: a call that leaves a sequence in the slot is animate_sequence with  *)
(* the steps now in the slot; it puts the new sequence there at            *)
(* current_step 0 and starts its first step on the base (target and config *)
(* of steps[0], running) in the same call; afterwards only the steps of    *)
(* the sequence in the slot are started and only its callbacks are         *)
(* invoked, so nothing of a replaced sequence runs again.                  *)
C10_AnimateSequenceReplaces ==
    /\ [][(calls' # calls /\ sequence' # NoSeq) =>
            LET p == PlanOf(sequence'.steps)
                cb == sequence'.on_complete # NoCb
            IN  /\ p \in Plans
                /\ Len(p) > 0
                /\ animate_sequence(p, cb)
                /\ sequence'.steps = StepsOf(p, calls')
                /\ sequence'.id = calls'
                /\ sequence'.current_step = 0
                /\ sequence'.on_complete = (IF cb THEN <<calls', 0>> ELSE NoCb)
                /\ base'.target = sequence'.steps[1].target
                /\ base'.config = sequence'.steps[1].config
                /\ base'.running
                /\ base'.initial = base.current]_vars
    /\ [](sequence # NoSeq =>
            /\ sequence.id = calls
            /\ base.config.on_complete = sequence.steps[sequence.current_step + 1].config.on_complete
            /\ base.target = sequence.steps[sequence.current_step + 1].target)
    /\ [](\A i \in DOMAIN fired : fired[i][1] = calls)

\* C10 witness: a sequence that replaced an installed one has run to its
\* end and invoked its own on_complete
C10_Witness ==
    /\ preempted # 0
    /\ sequence = NoSeq
    /\ ~cancelled
    /\ Len(fired) > 0
    /\ fired[Len(fired)] = <<calls, 0>>

----------------------------------------------------------------------------
(* C11: is_running() is true exactly when the base is running or a         *)
(* sequence is installed; it is true in particular while the last step of  *)
(* a sequence has reached its target and the slot has not been cleared yet.*)
C11_IsRunning ==
    /\ MotionState_is_running <=> (base.running \/ sequence # NoSeq)
    /\ (/\ sequence # NoSeq
        /\ ~base.running
        /\ sequence.current_step = Len(sequence.steps) - 1) => MotionState_is_running

\* C11 witness: the last step of a sequence has stopped at its target and
\* the sequence is still installed
C11_Witness ==
    /\ sequence # NoSeq
    /\ ~base.running
    /\ sequence.current_step = Len(sequence.steps) - 1
    /\ base.current = LastTarget(sequence.steps)
    /\ MotionState_is_running

----------------------------------------------------------------------------
(* C12: on a driver whose base is not running and which has no sequence    *)
(* installed, the fresh driver included, update(dt) returns false for      *)
(* every dt, leaves the whole base state and the slot as they are and      *)
(* invokes no callback.                                                    *)
C12_IdleUpdateNoOp ==
    (~base.running /\ sequence = NoSeq) =>
        \A dt \in Dts \cup {0} :
            LET r == MotionState_update(base, sequence, dt)
            IN  /\ ~r.ret
                /\ r.base = base
                /\ r.sequence = sequence
                /\ r.cb = <<>>

\* C12 witness: a driver idle again after an animation ran to its target
C12_Witness ==
    /\ calls >= 1
    /\ ~base.running
    /\ sequence = NoSeq
    /\ ~cancelled
    /\ base.current = base.target
    /\ base.current # base.initial
    /\ base.elapsed > 0

----------------------------------------------------------------------------
(* C13: the value update(dt) returns is the value is_running() has right   *)
(* after the call, for a bare animation and for a sequence, under every    *)
(* loop policy, whether or not the call changes the state.                 *)
C13_UpdateReturnsIsRunning ==
    /\ [][\A dt \in Dts :
            update(dt) =>
                (MotionState_update(base, sequence, dt).ret = MotionState_is_running')]_vars
    /\ [](\A dt \in Dts :
            LET r == MotionState_update(base, sequence, dt)
            IN  (r.base = base /\ r.sequence = sequence) =>
                    (r.ret = MotionState_is_running))

\* C13 witness: a step that is not the last has finished inside an update
\* call, which returned true because the sequence is still installed
C13_Witness ==
    /\ sequence # NoSeq
    /\ sequence.current_step < Len(sequence.steps) - 1
    /\ ~base.running
    /\ base.current = base.target
    /\ base.elapsed > 0

----------------------------------------------------------------------------
(* C14: whenever the base is not running its velocity is zero, the state a *)
(* Spring with loop policy None completes into included.                   *)
C14_StoppedHasNoVelocity == ~base.running => base.velocity = Zero

----------------------------------------------------------------------------
(* C15: after animate_to with a delay d > 0 in its configuration, an       *)
(* update made while delay_elapsed < d returns true, adds to delay_elapsed *)
(* and leaves current, elapsed and velocity as they are; the mode steps    *)
(* only once delay_elapsed >= d.                                           *)
C15_DelayConsumed ==
    [][\A dt \in Dts :
        (/\ update(dt)
         /\ base.running
         /\ base.config.delay > 0
         /\ base.delay_elapsed < base.config.delay) =>
            /\ MotionState_update(base, sequence, dt).ret
            /\ base'.delay_elapsed > base.delay_elapsed
            /\ base'.current = base.current
            /\ base'.elapsed = base.elapsed
            /\ base'.velocity = base.velocity]_vars

----------------------------------------------------------------------------
(* C16: stop() leaves running false, velocity zero, current_loop 0 and no  *)
(* sequence installed, and current, target, initial and elapsed exactly as *)
(* they were; stopping the state it leaves changes nothing more, so two    *)
(* stop() calls give the state one gives.                                  *)
C16_StopIdempotent ==
    /\ [][stop =>
            /\ ~base'.running
            /\ base'.velocity = Zero
            /\ base'.current_loop = 0
            /\ sequence' = NoSeq
            /\ base'.current = base.current
            /\ base'.target = base.target
            /\ base'.initial = base.initial
            /\ base'.elapsed = base.elapsed
            /\ AnimationState_stop(base') = base']_vars
    /\ [](AnimationState_stop(AnimationState_stop(base)) = AnimationState_stop(base))

\* C16 witness: a Spring stopped in flight, its value left between initial
\* and target
C16_Witness ==
    /\ cancelled
    /\ ~base.running
    /\ ~IsTween(base)
    /\ sequence = NoSeq
    /\ base.velocity = Zero
    /\ base.current # base.initial
    /\ base.current # base.target

----------------------------------------------------------------------------
(* C17: reset() leaves running false, velocity zero, elapsed 0, no         *)
(* sequence installed and current = initial, with initial, target and      *)
(* config unchanged; initial is the construction value until something is  *)
(* started, and it changes only when an animation or a step of a sequence  *)
(* is started, to the value current had just before.                       *)
C17_ResetRestoresInitial ==
    /\ [][reset =>
            /\ ~base'.running
            /\ base'.velocity = Zero
            /\ base'.elapsed = 0
            /\ sequence' = NoSeq
            /\ base'.current = base.initial
            /\ base'.initial = base.initial
            /\ base'.target = base.target
            /\ base'.config = base.config]_vars
    /\ [](calls = 0 => base.initial = MotionState_new(0).base.current)
    /\ [][(\/ calls' # calls
           \/ /\ sequence # NoSeq /\ sequence' # NoSeq
              /\ sequence'.current_step # sequence.current_step) =>
                base'.initial = base.current]_vars
    /\ [][base'.initial # base.initial =>
            (\/ calls' # calls
             \/ /\ sequence # NoSeq /\ sequence' # NoSeq
                /\ sequence'.current_step # sequence.current_step)]_vars

\* C17 witness: reset() during the second cycle of a looping animation that
\* was not started from the construction value
C17_Witness ==
    /\ cancelled
    /\ ~base.running
    /\ base.current_loop > 0
    /\ base.elapsed = 0
    /\ base.current = base.initial
    /\ base.initial # MotionState_new(0).base.current
    /\ base.target # base.initial

----------------------------------------------------------------------------
(* C18: animate_to(target, config), from any state, sets initial to the    *)
(* current of before, leaves current, sets target and config to its        *)
(* arguments, running true, elapsed 0, delay_elapsed 0, velocity zero and  *)
(* current_loop 0, and empties the sequence slot; until the next call      *)
(* nothing of the animation it replaced comes back: target, initial and    *)
(* mode stay those of this call.                                           *)
C18_AnimateToPostcondition ==
    /\ [][\A r \in Requests :
            animate_to(r) =>
                /\ base'.initial = base.current
                /\ base'.current = base.current
                /\ base'.target = r.target
                /\ base'.config.mode = r.mode
                /\ base'.config.loop_mode = r.loop_mode
                /\ base'.config.on_complete = (IF r.cb THEN <<calls', 1>> ELSE NoCb)
                /\ base'.running
                /\ base'.elapsed = 0
                /\ base'.delay_elapsed = 0
                /\ base'.velocity = Zero
                /\ base'.current_loop = 0
                /\ sequence' = NoSeq
                /\ fired' = <<>>]_vars
    /\ [][(calls' = calls /\ sequence = NoSeq) =>
            /\ sequence' = NoSeq
            /\ base'.target = base.target
            /\ base'.initial = base.initial
            /\ base'.config.mode = base.config.mode
            /\ base'.config.loop_mode = base.config.loop_mode
            /\ base'.config.on_complete = base.config.on_complete]_vars

\* C18 witness: animate_to has just replaced an animation in flight, whose
\* value at that moment is the new initial
C18_Witness ==
    /\ calls = 2
    /\ sequence = NoSeq
    /\ base.running
    /\ IsTween(base)
    /\ LoopKind(base) = "None"
    /\ base.elapsed = 0
    /\ base.velocity = Zero
    /\ base.initial = base.current
    /\ base.current \notin {0, 50 * ValueScale, 100 * ValueScale}

----------------------------------------------------------------------------
(* C19: right after animate_to, stop or reset is called on a running       *)
(* animation.                                                              *)

\* C19 as stated: velocity is zero and elapsed is zero after each of them.
C19_Original ==
    [][(base.running /\ (stop \/ reset \/ \E r \in Requests : animate_to(r))) =>
            (base'.velocity = Zero /\ base'.elapsed = 0)]_vars

\* C19 amended: velocity is zero after each of them; elapsed is zero after
\* animate_to and reset, while stop leaves elapsed at the value it had.
C19_CancellationDiscards ==
    /\ [][(base.running /\ (stop \/ reset \/ \E r \in Requests : animate_to(r))) =>
            base'.velocity = Zero]_vars
    /\ [][(base.running /\ (reset \/ \E r \in Requests : animate_to(r))) =>
            base'.elapsed = 0]_vars
    /\ [][(base.running /\ stop) => base'.elapsed = base.elapsed]_vars

\* C19 witness: a Tween stopped in flight still carries the time it had run
C19_Witness ==
    /\ cancelled
    /\ ~base.running
    /\ IsTween(base)
    /\ base.elapsed > 0
    /\ base.elapsed < base.config.mode.duration
    /\ base.velocity = Zero
    /\ base.current # base.initial

----------------------------------------------------------------------------
(* C20: an update call of a running animation, and the sub-step loop of    *)
(* its Spring arm.                                                         *)

\* C20 as stated: at most 8 sub-steps run in an update call, and when the
\* loop is left the sub-steps sum to the clamped dt.
C20_Original ==
    physics.active =>
        /\ Len(physics.step_dts) <= 8
        /\ ~(physics.remaining_dt > 0) => SumSeq(physics.step_dts) = physics.dt

\* C20 amended: update(dt) with dt > 1/30 s gives the successor state and
\* the return value of update(1/30 s), and the loop is entered with at most
\* 1/30 s; the loop terminates, each sub-step is positive and at most
\* 1/240 s and at most 9 sub-steps run; remaining_dt is an f32 and every
\* subtraction rounds, so the sub-steps sum to the clamped dt only up to
\* half an f32 spacing per sub-step, and a call with dt >= 1/30 s takes 8
\* sub-steps of 1/240 s and a 9th of 6 * 2^-31 s.
C20_ClampAndSubSteps ==
    /\ [](base.running =>
            \A dt \in { k \in Dts \cup {MAX_DT + 1, HalfSecond} : k > MAX_DT } :
                MotionState_update(base, sequence, dt)
                    = MotionState_update(base, sequence, MAX_DT))
    /\ [](physics.active =>
            /\ physics.dt <= MAX_DT_F32
            /\ Len(physics.step_dts) <= 9
            /\ \A i \in DOMAIN physics.step_dts :
                  physics.step_dts[i] > 0 /\ physics.step_dts[i] <= PHYSICS_STEP_F32
            /\ ~(physics.remaining_dt > 0) =>
                  /\ 2 * Abs(SumSeq(physics.step_dts) - physics.dt)
                        <= Len(physics.step_dts) * Quantum(physics.dt)
                  /\ physics.dt = MAX_DT_F32 =>
                        /\ Len(physics.step_dts) = 9
                        /\ \A i \in 1..8 : physics.step_dts[i] = PHYSICS_STEP_F32
                        /\ physics.step_dts[9] = 6)
    /\ [][SubStep => physics'.remaining_dt < physics.remaining_dt]_vars
    /\ physics.active ~> ~(physics.remaining_dt > 0)

\* C20 witness: an update call with dt = 0.5 s has left the loop's test
\* after its 9th sub-step, the loop entered with 1/30 s
C20_Witness ==
    /\ physics.active
    /\ physics.ticks = HalfSecond
    /\ physics.dt = MAX_DT_F32
    /\ physics.remaining_dt = 0
    /\ Len(physics.step_dts) = 9
    /\ base.running
    /\ nUpd > 0

----------------------------------------------------------------------------
(* C21: a Spring with loop policy None, driven by update calls with a      *)
(* bounded positive dt.                                                    *)

----------------------------------------------------------------------------
(* C22: loop counter and tween time while running.                         *)

\* C22: in every reachable state with running = true, a Tween has
\* elapsed <= its duration, and a Times(n) loop with n >= 1 has
\* current_loop < n, whatever calls led there.
C22_RunningBounds ==
    base.running =>
        /\ IsTween(base) => base.elapsed <= base.config.mode.duration
        /\ (LoopKind(base) = "Times" /\ LoopOf(base.config).count >= 1) =>
              base.current_loop < LoopOf(base.config).count

\* C22 witness: the last cycle of a Times(3) tween, in flight
C22_Witness ==
    /\ base.running
    /\ IsTween(base)
    /\ LoopOf(base.config) = LoopTimes(3)
    /\ base.current_loop = 2
    /\ base.elapsed > 0

----------------------------------------------------------------------------
(* C23: the state in which the per-animation callback is invoked.          *)

\* C23: when an update call invokes config.on_complete, the state at the
\* call already has current = target, running = false and the loop counter
\* in its final value (0, the counter of a stopped animation), and the
\* update leaves exactly that state behind.
C23_CallbackAfterCommit ==
    base.running =>
        /\ LET c == [base EXCEPT !.current = base.target]
               m == CallbackMoment(c)
           IN  handle_completion(c).cb # <<>> =>
                 /\ m.current = m.target
                 /\ ~m.running
                 /\ m.current_loop = 0
                 /\ handle_completion(c).st = m
        /\ \A dt \in Dts :
             LET u == AnimationState_update(base, dt)
             IN  u.cb # <<>> =>
                   /\ u.cb = <<base.config.on_complete>>
                   /\ u.st.current = u.st.target
                   /\ ~u.st.running
                   /\ u.st.current_loop = 0
                   /\ ~u.ret

\* C23 witness: a Times(1) animation has stopped, its counter is back at 0
\* and its callback has run
C23_Witness ==
    /\ fired = <<base.config.on_complete>>
    /\ LoopOf(base.config) = LoopTimes(1)
    /\ ~base.running
    /\ base.current = base.target
    /\ base.current_loop = 0
    /\ ~base.running
    /\ base.current = base.target
    /\ base.current_loop = 0

----------------------------------------------------------------------------
(* C25: a Tween of duration zero.                                          *)

\* C25: after animate_to with a zero-duration Tween and loop policy None,
\* the first update, whatever its dt >= 0, sets current = target and
\* running = false and returns false.
C25_ZeroDuration ==
    (base.running /\ IsTween(base) /\ base.config.mode.duration = 0
       /\ LoopKind(base) = "None") =>
        \A dt \in Dts \cup {0} :
           LET r == MotionState_update(base, sequence, dt)
           IN  /\ r.base.current = base.target
               /\ ~r.base.running
               /\ ~r.ret

\* C25 witness: a zero-duration Tween has completed away from its start
C25_Witness ==
    /\ IsTween(base)
    /\ base.config.mode.duration = 0
    /\ ~base.running
    /\ base.current = base.target
    /\ base.current # base.initial
    /\ nUpd = 1

----------------------------------------------------------------------------
(* C24: the state in which the sequence's callback is invoked.             *)

\* C24: when an update call invokes the sequence's on_complete, the
\* sequence slot has already been cleared, so that is_running() would
\* report false at that moment.
C24_SequenceCallbackAfterCommit ==
    LET a == AdvanceSequence(base, sequence)
        m == SequenceCallbackMoment(base, sequence)
    IN  (a.branch = "complete" /\ a.cb # <<>>) =>
          /\ m.sequence = NoSeq
          /\ ~m.base.running

----------------------------------------------------------------------------
(* C26: one update call on an installed sequence.                          *)

\* C26: with a sequence installed, an update that finds the base running
\* leaves the sequence state untouched; one that finds the base not running
\* and current_step below the last index increments current_step by one,
\* calls animate_to on the base with the target and configuration of the
\* step at the new index, advances that new step by dt in the same call
\* and returns true.
C26_SequenceAdvance ==
    sequence # NoSeq =>
      \A dt \in Dts :
        LET r == MotionState_update(base, sequence, dt)
            current_step == sequence.current_step
        IN  /\ base.running => r.sequence = sequence
            /\ (~base.running /\ current_step < Len(sequence.steps) - 1) =>
                  LET step == sequence.steps[(current_step + 1) + 1]
                      started == AnimationState_animate_to(base, step.target, step.config)
                  IN  /\ r.sequence = [sequence EXCEPT !.current_step = current_step + 1]
                      /\ r.base = AnimationState_update(started, dt).st
                      /\ r.ret

\* C26 witness: the second step is under way, already advanced by the dt
\* of the update that started it
C26_Witness ==
    /\ sequence # NoSeq
    /\ sequence.current_step = 1
    /\ base.target = sequence.steps[2].target
    /\ base.config = sequence.steps[2].config
    /\ base.running
    /\ base.current_loop = 0
    /\ base.elapsed = 9
    /\ base.current # base.initial

----------------------------------------------------------------------------
(* C27: stop() and reset() on an installed sequence.                       *)

\* C27: stop or reset called while a sequence is installed clears the
\* slot and makes is_running() false at once; from then on, until the next
\* animate_to or animate_sequence, every update returns false and changes
\* nothing, so no remaining step starts, and the sequence's on_complete,
\* which has not been invoked while the sequence was installed, is not
\* invoked afterwards either.
C27_StopCancelsSequence ==
    /\ [][((stop \/ reset) /\ sequence # NoSeq) =>
            /\ sequence' = NoSeq
            /\ ~MotionState_is_running'
            /\ Count(fired', <<calls, 0>>) = 0]_vars
    /\ [](sequence # NoSeq => Count(fired, <<calls, 0>>) = 0)
    /\ [](cancelled =>
            /\ sequence = NoSeq
            /\ ~MotionState_is_running
            /\ \A dt \in Dts :
                 LET r == MotionState_update(base, sequence, dt)
                 IN  ~r.ret /\ r.cb = <<>> /\ r.base = base /\ r.sequence = NoSeq)
    /\ [][(cancelled /\ cancelled') => fired' = fired]_vars

\* C27 witness: a sequence was cancelled during its second step, whose
\* own callback has not run
C27_Witness ==
    /\ cancelled
    /\ sequence = NoSeq
    /\ ~base.running
    /\ base.config.on_complete = <<calls, 2>>
    /\ Count(fired, <<calls, 2>>) = 0
    /\ Count(fired, <<calls, 0>>) = 0

----------------------------------------------------------------------------
(* C28: delay(duration) on the driver.                                     *)

\* C28: delay(duration) changes config.delay of the base and nothing else,
\* and while the delay so set has not yet elapsed, an update of the
\* animation in flight does not step it: current, velocity and elapsed
\* stay as they are.
C28_DelayPostpones ==
    [][/\ \A d \in Delays :
            delay(d) =>
               /\ base'.config = [base.config EXCEPT !.delay = d]
               /\ \A f \in DOMAIN base \ {"config"} : base'[f] = base[f]
               /\ sequence' = sequence
       /\ \A dt \in Dts :
            (update(dt) /\ base.running /\ base.delay_elapsed < base.config.delay) =>
               /\ base'.current = base.current
               /\ base'.velocity = base.velocity
               /\ base'.elapsed = base.elapsed]_vars

----------------------------------------------------------------------------
(* C29: the step index of an installed sequence.                           *)

\* C29: whenever a sequence (of at most 255 steps) is installed, steps is
\* non-empty and current_step <= len(steps) - 1; the lookup
\* steps[current_step + 1] of the Less arm is in range and the Greater arm
\* of the comparison is not taken.
C29_SequenceIndexBound ==
    sequence # NoSeq =>
        LET current_step == sequence.current_step
            total_steps == Len(sequence.steps)
        IN  /\ total_steps >= 1
            /\ total_steps <= 255
            /\ current_step <= total_steps - 1
            /\ AdvanceSequence(base, sequence).branch # "greater"
            /\ (~base.running /\ current_step < LastStep(total_steps)) =>
                  (current_step + 1) + 1 \in DOMAIN sequence.steps

\* C29 witness: a sequence of several steps is on its last index with the
\* base still running
C29_Witness ==
    /\ sequence # NoSeq
    /\ Len(sequence.steps) >= 2
    /\ sequence.current_step = Len(sequence.steps) - 1
    /\ base.running
    /\ AdvanceSequence(base, sequence).branch = "running"

----------------------------------------------------------------------------
(* C30: sequences of 2^8 steps and more.                                   *)

\* C30: for a sequence of any length n >= 1, n = 256 and n > 256
\* included, the test current_step == (n as u8) - 1 does not underflow and
\* does not match early: the sequence's on_complete fires only in an
\* update that finds the last of the n steps, started in order, finished.
C30_AllStepsStart ==
    /\ [](~panicked)
    /\ [][Count(fired', <<calls, 0>>) > Count(fired, <<calls, 0>>) =>
            /\ sequence.current_step = Len(sequence.steps) - 1
            /\ base.target = LastTarget(sequence.steps)]_vars

----------------------------------------------------------------------------
(* C31: the value between the steps of a sequence.                         *)

\* C31: whenever an installed sequence finds its base not running, the
\* base's current is exactly the target of the step that has just ended,
\* under Times(n) as well; the update that advances to the next step
\* starts it with initial equal to that target, and every later step of
\* the sequence keeps the previous step's target as its initial.
C31_SequenceContinuity ==
    sequence # NoSeq =>
        LET current_step == sequence.current_step
            steps == sequence.steps
        IN  /\ ~base.running =>
                  /\ base.current = steps[current_step + 1].target
                  /\ MotionState_get_value = steps[current_step + 1].target
                  /\ current_step < Len(steps) - 1 =>
                        \A dt \in Dts :
                           LET r == MotionState_update(base, sequence, dt)
                           IN  /\ r.branch = "advance"
                               /\ r.base.initial = steps[current_step + 1].target
                               /\ r.base.target = steps[current_step + 2].target
            /\ current_step >= 1 => base.initial = steps[current_step].target

\* C31 witness: the step after a Times(2) step is under way, started from
\* that step's target
C31_Witness ==
    /\ sequence # NoSeq
    /\ sequence.current_step = 1
    /\ LoopOf(sequence.steps[1].config) = LoopTimes(2)
    /\ base.running
    /\ base.initial = sequence.steps[1].target
    /\ base.target = sequence.steps[2].target
    /\ base.target # base.initial

----------------------------------------------------------------------------
(* C32: the callbacks of a sequence, call by call.                         *)

\* C32: with a sequence installed, an update call invokes the own
\* on_complete of the step under way exactly when that step finishes in
\* this call, and such a call returns true, keeps the sequence installed
\* and does not invoke the sequence's on_complete; the sequence's
\* on_complete is invoked only by a later call that finds the last step
\* finished, and that call returns false and invokes nothing else.  In the
\* record of callbacks the sequence's on_complete therefore comes last.
C32_CallbackOrder ==
    /\ sequence # NoSeq =>
         /\ Count(fired, <<calls, 0>>) = 0
         /\ \A dt \in Dts :
              LET r == MotionState_update(base, sequence, dt)
                  last == sequence.current_step = Len(sequence.steps) - 1
              IN  IF ~base.running /\ last
                  THEN /\ r.cb = IF sequence.on_complete # NoCb
                                 THEN <<sequence.on_complete>> ELSE <<>>
                       /\ ~r.ret
                       /\ r.sequence = NoSeq
                  ELSE /\ r.ret
                       /\ r.sequence # NoSeq
                       /\ r.cb = IF r.base.running THEN <<>> ELSE OwnCallback(r.base)
                       /\ r.base.config.on_complete =
                             sequence.steps[r.sequence.current_step + 1].config.on_complete
    /\ \A i \in DOMAIN fired : fired[i] = <<calls, 0>> => i = Len(fired)

\* C32 witness: the last step's own callback, then the sequence's
C32_Witness ==
    /\ sequence = NoSeq
    /\ ~cancelled
    /\ fired = <<<<calls, 2>>, <<calls, 0>>>>
    /\ base.config.on_complete = <<calls, 2>>
    /\ ~base.running

----------------------------------------------------------------------------
(* C33: a sequence step that loops for ever.                               *)

\* The step under way belongs to an installed sequence and has loop
\* policy Infinite
Blocked == sequence # NoSeq /\ LoopKind(base) = "Infinite"

\* C33: while a step with loop policy Infinite is under way, the base is
\* running and is_running() is true; every update returns true, leaves
\* current_step where it is, starts no later step and invokes no callback,
\* the sequence's on_complete least of all; and the step stops being
\* under way only by animate_to, animate_sequence, stop or reset.
C33_InfiniteStepBlocks ==
    /\ [](Blocked =>
            /\ base.running
            /\ MotionState_is_running
            /\ Count(fired, <<calls, 0>>) = 0
            /\ \A dt \in Dts :
                 LET r == MotionState_update(base, sequence, dt)
                 IN  /\ r.ret
                     /\ r.sequence = sequence
                     /\ r.base.running
                     /\ r.base.target = base.target
                     /\ r.cb = <<>>)
    /\ [][(Blocked /\ ~Blocked') => (calls' = calls + 1 \/ cancelled')]_vars
    /\ [][(Blocked /\ Blocked' /\ calls' = calls) =>
            sequence'.current_step = sequence.current_step]_vars

\* C33 witness: many updates on, the first step still loops and the
\* second has not started
C33_Witness ==
    /\ Blocked
    /\ Len(sequence.steps) >= 2
    /\ sequence.current_step = 0
    /\ nUpd = MaxCount
    /\ fired = <<>>
    /\ base.target = sequence.steps[1].target

----------------------------------------------------------------------------
(* C34: the idle driver.                                                   *)

\* C34: once is_running() is false, update, stop, delay and
\* animate_sequence with an empty sequence keep it false and keep
\* get_value() as it is; is_running() becomes true again only by a call of
\* animate_to or of animate_sequence with a non-empty sequence.
C34_IdleIsStable ==
    /\ [][(~MotionState_is_running
             /\ (Update \/ Stop \/ Delay \/ \E cb \in BOOLEAN : animate_sequence(<<>>, cb))) =>
            /\ ~MotionState_is_running'
            /\ MotionState_get_value' = MotionState_get_value]_vars
    /\ [][(~MotionState_is_running /\ MotionState_is_running') =>
            calls' = calls + 1]_vars
    /\ [](~MotionState_is_running =>
            \A dt \in Dts :
               LET r == MotionState_update(base, sequence, dt)
               IN  ~r.ret /\ r.base = base /\ r.sequence = sequence /\ r.cb = <<>>)

\* C34 witness: a bare animation has completed and stop() was called on
\* the idle driver; the value is still the target
C34_Witness ==
    /\ ~MotionState_is_running
    /\ cancelled
    /\ base.config.mode = Tween(18, "Linear")
    /\ fired = <<<<calls, 1>>>>
    /\ MotionState_get_value = base.target
    /\ base.target # base.initial
    /\ base.config.delay > 0

----------------------------------------------------------------------------
(* C35: the loop of use_motion.                                            *)

\* C35: the loop goes on for ever; an iteration calls update(dt) exactly
\* when is_running() is true at that moment, with dt the time since the
\* previous iteration's timestamp, whether that iteration was idle or not,
\* and otherwise only asks for the idle delay; an animation started by
\* animate_to between two iterations gets its first update in the very
\* next iteration, at the end of the delay under way, which was asked for
\* with the idle delay at most; and a finite Tween animation reaches
\* is_running() = false.
C35_HostTickLoop ==
    /\ []<>(host.pc = "top") /\ []<>(host.pc = "sleep")
    /\ [][(host.pc = "top" /\ host'.pc = "sleep") =>
            IF MotionState_is_running
            THEN LET r == MotionState_update(base, sequence, host.dt)
                 IN  /\ nUpd' = nUpd + 1
                     /\ base' = r.base /\ sequence' = r.sequence
                     /\ host'.delay = IF host.dt > SlowFrame
                                      THEN short_delay ELSE normal_delay
            ELSE /\ UNCHANGED <<base, sequence, nUpd, fired>>
                 /\ host'.delay = idle_delay]_vars
    /\ [][(host.pc = "sleep" /\ host'.pc = "top") =>
            \E late \in TimerLateness : host'.dt = host.delay + late]_vars
    /\ []((MotionState_is_running /\ nUpd = 0) =>
            /\ host.delay <= idle_delay
            /\ host.pc = "top" => ENABLED HostIterate)
    /\ [][(MotionState_is_running /\ nUpd = 0 /\ host.pc = "top" /\ host' # host) =>
            nUpd' = 1]_vars
    /\ MotionState_is_running ~> ~MotionState_is_running

\* C35 witness: an animation started during an idle delay that ended
\* late has had its first update
C35_Witness ==
    /\ host.pc = "sleep"
    /\ host.dt = idle_delay + 30
    /\ host.delay = short_delay
    /\ nUpd = 1
    /\ base.running
    /\ base.elapsed = MAX_DT

----------------------------------------------------------------------------
(* C36: the route context.                                                 *)

\* C36: after set_target_route(r), target_route() is r and the previous
\* destination is the `from` route: In(a) becomes FromTo(a, r) and
\* FromTo(a, b) becomes FromTo(b, r); settle() turns FromTo(_, to) into
\* In(to), leaves In(to) as it is, never changes target_route() and is
\* idempotent.
C36_RouteContext ==
    /\ router.kind \in {"In", "FromTo"}
    /\ \A r \in Routes :
         LET next == set_target_route(router, r)
         IN  /\ target_route(next) = r
             /\ next = FromTo(target_route(router), r)
             /\ \A a \in Routes : router = In(a) => next = FromTo(a, r)
             /\ \A a, b \in Routes : router = FromTo(a, b) => next = FromTo(b, r)
    /\ LET settled == settle(router)
       IN  /\ settled = In(target_route(router))
           /\ router.kind = "In" => settled = router
           /\ target_route(settled) = target_route(router)
           /\ settle(settled) = settled

\* C36 witness: a transition between two routes other than the first one,
\* entered from another transition
C36_Witness ==
    /\ router.kind = "FromTo"
    /\ router.from # router.to
    /\ router.from # 1
    /\ router.to # 1

====
